---- MODULE Spec2Model ----
(***************************************************************************)
(* horseVPN: the Registry (sync-server), the Router (routing-server), the   *)
(* push link between them, and the Relay (actual-vpn-server).              *)
(*                                                                         *)
(* Strings are sequences of one-character strings, so that prefix tests,   *)
(* the id pattern and URL parsing are computed.  A JSON value of a request *)
(* body is a record [kind, text]: kind is the JavaScript typeof, text the  *)
(* value's String() form.                                                  *)
(***************************************************************************)
EXTENDS Naturals, Sequences, FiniteSets

VARIABLES
  servers,        \* Registry: the Map id -> Server, in insertion order
  db,             \* Registry: rows of the servers table of servers.db
  dbQueue,        \* Registry: statements issued with db.run, not yet executed
  loading,        \* Registry: the startup db.all of loadServersFromDB
  sweeps,         \* Registry: healthCheck() calls in progress
  pushes,         \* pushServerListToRoutingServer() calls in progress
  now,            \* Registry: the clock read by Date.now()
  registered,     \* history: the number of records /register has stored
  started,        \* history: the number of healthCheck() calls made
  serverList,     \* Router: the membership snapshot
  cache,          \* Router: the cache table of cache.db, ip -> server
  routes,         \* Router: /route handlers awaiting getCachedServer
  expectedToken,  \* Router: process.env.SYNC_SERVER_TOKEN
  snapIds,        \* history: the Registry ids behind serverList
  stable,         \* history: per ip, the endpoint of the last undisturbed /route
  conns,          \* Relay: the inbound connections and their sessions
  handles,        \* Relay: the connections the sessions forward between
  relay,          \* Relay: the position of main() and the registration it sends
  boot,           \* history: the Registry's restarts; its table at the last one
  last            \* history: the handler step just taken and its response

regVars ==
  <<servers, db, dbQueue, loading, sweeps, now, registered, started, boot>>
routerVars == <<serverList, cache, routes, expectedToken, snapIds, stable>>
relayVars == <<conns, handles, relay>>
vars == <<servers, db, dbQueue, loading, sweeps, pushes, now, registered,
          started, serverList, cache, routes, expectedToken, snapIds, stable,
          conns, handles, relay, boot, last>>

----------------------------------------------------------------------------
(* Bounds of the model. *)

MaxTime == 1
MaxRegistrations == 2
MaxMinted == 2
MaxDbQueue == 1
MaxSweeps == 2
MaxPushes == 1
MaxInFlight == 2
MaxRelayStarts == 2
MaxRoutes == 2
MaxRestarts == 1
MaxConns == 2
MaxMsgs == 2

----------------------------------------------------------------------------
(* JSON values and JavaScript string operations. *)

Str(cs) == [kind |-> "string", text |-> cs]
Num(cs) == [kind |-> "number", text |-> cs]
Undefined == [kind |-> "undefined", text |-> <<>>]
Null == [kind |-> "null", text |-> <<>>]

\* JavaScript truthiness: !v is ~Truthy(v).
Truthy(v) ==
  CASE v.kind = "string" -> v.text # <<>>
    [] v.kind = "number" -> v.text # <<"0">>
    [] OTHER -> FALSE

\* String.prototype.startsWith
StartsWith(s, p) == Len(s) >= Len(p) /\ SubSeq(s, 1, Len(p)) = p

\* String.prototype.substring(n)
Substring(s, n) == SubSeq(s, n + 1, Len(s))

WsPrefix == <<"w", "s", ":", "/", "/">>
WssPrefix == <<"w", "s", "s", ":", "/", "/">>
BearerPrefix == <<"B", "e", "a", "r", "e", "r", " ">>

Letters ==
  {"a", "b", "c", "d", "e", "f", "g", "h", "i", "j", "k", "l", "m",
   "n", "o", "p", "q", "r", "s", "t", "u", "v", "w", "x", "y", "z",
   "A", "B", "C", "D", "E", "F", "G", "H", "I", "J", "K", "L", "M",
   "N", "O", "P", "Q", "R", "S", "T", "U", "V", "W", "X", "Y", "Z"}
Digits == {"0", "1", "2", "3", "4", "5", "6", "7", "8", "9"}

\* /^[a-zA-Z0-9_-]+$/.test(id): the argument is converted with String().
IdPattern(v) ==
  /\ v.text # <<>>
  /\ \A i \in 1..Len(v.text) : v.text[i] \in Letters \cup Digits \cup {"_", "-"}

\* The host that new URL() finds in a ws: or wss: URL: for these schemes the
\* parser skips every slash after the colon and reads the host up to the next
\* slash.  (URLs of the model are written over letters, digits, ".", "/" and
\* " "; ports, credentials, queries and fragments do not occur.)
RECURSIVE SkipSlashes(_)
SkipSlashes(s) ==
  IF s # <<>> /\ Head(s) = "/" THEN SkipSlashes(Tail(s)) ELSE s

RECURSIVE UpToSlash(_)
UpToSlash(s) ==
  IF s = <<>> \/ Head(s) = "/" THEN <<>> ELSE <<Head(s)>> \o UpToSlash(Tail(s))

UrlHost(text) ==
  LET rest == IF StartsWith(text, WssPrefix) THEN Substring(text, 6)
              ELSE Substring(text, 5)
  IN  UpToSlash(SkipSlashes(rest))

\* new URL(url) does not throw: the host is not empty and holds no forbidden
\* host code point (of the model's alphabet, the space).
UrlParses(text) ==
  LET host == UrlHost(text)
  IN  host # <<>> /\ \A i \in 1..Len(host) : host[i] # " "

\* url.startsWith('wss://') || url.startsWith('ws://')
HasWsScheme(text) == StartsWith(text, WssPrefix) \/ StartsWith(text, WsPrefix)

----------------------------------------------------------------------------
(* Values the requests of the model are built from. *)

IdLong == <<"r", "e", "l", "a", "y", "-", "0", "1">>
IdShort == <<"r", "1">>
IdBad == <<"b", "a", "d", " ", "i", "d", "!", "!">>

\* crypto.randomBytes(16).toString('hex') is 32 hexadecimal digits.
Hex32(c) == [i \in 1..32 |-> c]
HexDigits == <<"a", "b", "c", "d", "e", "f">>
MintPool == {Hex32(HexDigits[k]) : k \in 1..MaxMinted}

LocUs == <<"u", "s">>
LocEu == <<"e", "u">>
LocTooLong == [i \in 1..101 |-> "x"]

UrlA == <<"w", "s", "s", ":", "/", "/", "a", "/", "w", "s">>
UrlB == <<"w", "s", ":", "/", "/", "b", "/", "w", "s">>
UrlHttp == <<"h", "t", "t", "p", ":", "/", "/", "a">>
UrlNoHost == <<"w", "s", ":", "/", "/">>

Token == <<"t", "o", "k">>
WrongToken == <<"b", "a", "d">>

RegReq(i, l, u) == [id |-> i, location |-> l, url |-> u]

\* Bodies of POST /register: the valid ones, and one for each way of failing.
ValidRegisterRequests ==
  { RegReq(Str(IdLong), Str(LocUs), Str(UrlA)),
    RegReq(Str(IdLong), Str(LocUs), Str(UrlB)),
    RegReq(Str(IdShort), Str(LocEu), Str(UrlB)) }

InvalidRegisterRequests ==
  { RegReq(Str(<<>>), Str(LocUs), Str(UrlA)),
    RegReq(Str(IdBad), Str(LocUs), Str(UrlA)),
    RegReq(Str(IdLong), Str(<<>>), Str(UrlA)),
    RegReq(Str(IdLong), Num(<<"5">>), Str(UrlA)),
    RegReq(Str(IdLong), Str(LocTooLong), Str(UrlA)),
    RegReq(Str(IdLong), Str(LocUs), Str(<<>>)),
    RegReq(Str(IdLong), Str(LocUs), Str(UrlHttp)),
    RegReq(Str(IdLong), Str(LocUs), Str(UrlNoHost)),
    RegReq(Str(IdLong), Str(LocUs), Num(<<"7">>)) }

RegisterRequests == ValidRegisterRequests \cup InvalidRegisterRequests

----------------------------------------------------------------------------
(* Registry (sync-server): tables. *)

Range(f) == {f[i] : i \in DOMAIN f}

\* The position of id in an insertion-ordered table, 0 when absent.
IndexOf(tbl, id) ==
  IF \E i \in 1..Len(tbl) : tbl[i].id = id
  THEN CHOOSE i \in 1..Len(tbl) : tbl[i].id = id
  ELSE 0

\* Map.prototype.has / get / set / delete, on the insertion-ordered Map.
MapHas(tbl, id) == IndexOf(tbl, id) # 0
MapGet(tbl, id) == tbl[IndexOf(tbl, id)]
MapSet(tbl, rec) ==
  IF MapHas(tbl, rec.id) THEN [tbl EXCEPT ![IndexOf(tbl, rec.id)] = rec]
  ELSE Append(tbl, rec)
MapDelete(tbl, id) == SelectSeq(tbl, LAMBDA r : r.id # id)
MapKeys(tbl) == [i \in 1..Len(tbl) |-> tbl[i].id]

\* Array.from(servers.values()).map(server => ({location, url}))
ProjectionWithId(tbl) ==
  [i \in 1..Len(tbl) |-> [location |-> tbl[i].id, url |-> tbl[i].url]]
Projection(tbl) ==
  [i \in 1..Len(tbl) |-> [location |-> tbl[i].location, url |-> tbl[i].url]]

\* The id column is TEXT: a bound value of another type is stored as text.
DbRow(server) == [server EXCEPT !.id = Str(server.id.text)]

\* INSERT OR REPLACE INTO servers ...: the old row of the key, if any, is
\* deleted and the new one gets a new rowid.
DbInsertOrReplace(rows, row) ==
  Append(SelectSeq(rows, LAMBDA r : r.id # row.id), row)

\* DELETE FROM servers WHERE id = ?
DbDelete(rows, id) == SelectSeq(rows, LAMBDA r : r.id.text # id.text)

\* One queued statement, executed.
DbApply(rows, stmt) ==
  IF stmt.op = "save" THEN DbInsertOrReplace(rows, stmt.row)
  ELSE DbDelete(rows, stmt.id)

\* saveServerToDB / removeServerFromDB: db.run only queues the statement.
SaveServerToDB(queue, server) ==
  Append(queue, [op |-> "save", row |-> DbRow(server), id |-> server.id])
RemoveServerFromDB(queue, id) ==
  Append(queue, [op |-> "remove", row |-> <<>>, id |-> id])

\* The body and the headers of the axios.post of
\* pushServerListToRoutingServer: the list as of the call, no Authorization.
PushRequest(tbl) ==
  [isArray |-> TRUE, items |-> Projection(tbl), auth |-> Undefined]

\* A push in flight.  src, waiter (the /register handler awaiting it), ids and
\* gone (of the sweep that sent it) are history.
PushMessage(tbl, src, waiter, gone) ==
  [req |-> PushRequest(tbl), phase |-> "sent", src |-> src,
   waiter |-> waiter, ids |-> MapKeys(tbl), gone |-> gone]

\* main() of a Relay that is not running.  pc: where main() is; req: the
\* ServerRegistration it posts; sid (history): the id the Registry stored it
\* under; starts (history): how often the process was started.
RelayOff == [pc |-> "off", req |-> Undefined, sid |-> Undefined, starts |-> 0]

----------------------------------------------------------------------------
(* Registry: POST /register and GET /list. *)

\* The checks of the handler, in the order of the code.  "throws" is the
\* TypeError of url.startsWith on a url that is not a string.
RegisterStatusNoDuplicateCheck(req, tbl) ==
  IF ~Truthy(req.id) \/ ~Truthy(req.location) \/ ~Truthy(req.url) THEN "400"
  ELSE IF ~IdPattern(req.id) THEN "400"
  ELSE IF req.location.kind # "string" \/ Len(req.location.text) = 0
          \/ Len(req.location.text) > 100 THEN "400"
  ELSE IF req.url.kind # "string" THEN "throws"
  ELSE IF ~HasWsScheme(req.url.text) THEN "400"
  ELSE IF ~UrlParses(req.url.text) THEN "400"
  ELSE "ok"
RegisterStatus(req, tbl) ==
  IF ~Truthy(req.id) \/ ~Truthy(req.location) \/ ~Truthy(req.url) THEN "400"
  ELSE IF ~IdPattern(req.id) THEN "400"
  ELSE IF req.location.kind # "string" \/ Len(req.location.text) = 0
          \/ Len(req.location.text) > 100 THEN "400"
  ELSE IF req.url.kind # "string" THEN "throws"
  ELSE IF ~HasWsScheme(req.url.text) THEN "400"
  ELSE IF ~UrlParses(req.url.text) THEN "400"
  ELSE IF MapHas(tbl, req.id) THEN "409"
  ELSE "ok"

\* if (!id || id.length < 8): length is undefined unless id is a string.
NeedsSecureId(id) == id.kind = "string" /\ Len(id.text) < 8

\* The ids secureId can take: the supplied id, or a minted one (one the table
\* does not hold: 128 random bits).
SecureIds(id, tbl) ==
  IF NeedsSecureId(id)
  THEN {Str(m) : m \in {h \in MintPool : ~MapHas(tbl, Str(h))}}
  ELSE {id}

\* The Server object the handler builds.
NewServer(req, secureId, t1, t2) ==
  [id |-> secureId, location |-> req.location, url |-> req.url,
   registeredAt |-> t1, lastSeen |-> t2]

\* A request the handler answers before it stores anything: 400, 409, or the
\* TypeError (answered 500 by an error handler, or not answered at all).
RegisterRejectOf(req) ==
  /\ RegisterStatus(req, servers) # "ok"
  /\ \E st \in IF RegisterStatus(req, servers) = "throws"
               THEN {"500", "none"} ELSE {RegisterStatus(req, servers)} :
       last' = [op |-> "register", req |-> req, status |-> st]
  /\ UNCHANGED <<conns, handles, regVars, pushes, routerVars>>
RegisterReject(req) == RegisterRejectOf(req) /\ UNCHANGED relay

\* A request that passes the checks: servers.set, saveServerToDB, and the
\* start of pushServerListToRoutingServer, which the handler then awaits.
RegisterStoreWithin(req, inFlight) ==
  /\ RegisterStatus(req, servers) = "ok"
  /\ registered < MaxRegistrations
  /\ Len(dbQueue) < MaxDbQueue
  /\ Len(pushes) < inFlight
  /\ \E secureId \in SecureIds(req.id, servers) :
     \E t1 \in now..MaxTime : \E t2 \in t1..MaxTime :
       LET server == NewServer(req, secureId, t1, t2)
           tbl == MapSet(servers, server)
       IN  /\ servers' = tbl
           /\ dbQueue' = SaveServerToDB(dbQueue, server)
           /\ pushes' = Append(pushes, PushMessage(tbl, "register", server.id, {}))
           /\ now' = t2
           /\ registered' = registered + 1
           /\ sweeps' = [j \in 1..Len(sweeps) |->
                            [sweeps[j] EXCEPT !.gone = @ \ {server.id},
                                              !.arrived = @ \cup {server.id}]]
           /\ last' = [op |-> "register-store", req |-> req, status |-> "pending",
                       serverId |-> server.id]
  /\ UNCHANGED <<conns, handles, boot, db, loading, started, routerVars>>

RegisterStore(req) == RegisterStoreWithin(req, MaxPushes) /\ UNCHANGED relay

\* The same request handled while the pushes of earlier handlers are still in
\* flight: nothing makes a handler wait for the push of another one.
RegisterConcurrent(req) ==
  ~loading.pending /\ RegisterStoreWithin(req, MaxInFlight) /\ UNCHANGED relay

\* The status /register answers once its push is over: the catch of
\* pushServerListToRoutingServer has absorbed a failure, and the handler goes
\* on to res.json({status: 'registered', serverId}).
ReplyStatusSurfacingFailure(phase) ==
  IF phase = "failed" THEN "500" ELSE "200"
ReplyStatus(phase) == "200"

\* The same request, arriving when no load is pending.
RegisterAfterLoad(req) == ~loading.pending /\ RegisterStore(req)

\* The push of a /register handler is over (delivered or failed):
\* res.json({status: 'registered', serverId}).
RegisterReplyOf(i) ==
  /\ pushes[i].phase \in {"delivered", "failed"}
  /\ pushes' = [j \in 1..(Len(pushes) - 1) |->
                  IF j < i THEN pushes[j] ELSE pushes[j + 1]]
  /\ last' = [op |-> "register-reply", status |-> ReplyStatus(pushes[i].phase),
              serverId |-> pushes[i].waiter, push |-> pushes[i].phase]
  /\ UNCHANGED <<conns, handles, regVars, routerVars>>
RegisterReply(i) == RegisterReplyOf(i) /\ UNCHANGED relay

\* GET /list
ListServers ==
  /\ last' = [op |-> "list", status |-> "200", body |-> Projection(servers)]
  /\ UNCHANGED <<relayVars, regVars, pushes, routerVars>>

\* The queued statement at the head of the queue is executed.
DbWrite ==
  /\ dbQueue # <<>>
  /\ db' = DbApply(db, Head(dbQueue))
  /\ dbQueue' = Tail(dbQueue)
  /\ last' = [op |-> "db-write", status |-> "none"]
  /\ UNCHANGED <<relayVars, boot, servers, loading, sweeps, now, registered, started, pushes,
                 routerVars>>

\* The callback of the db.all of loadServersFromDB: servers.clear(), then one
\* servers.set per row read at startup.
LoadServers ==
  /\ loading.pending
  /\ servers' = loading.rows
  /\ loading' = [pending |-> FALSE, rows |-> <<>>]
  /\ last' = [op |-> "load", status |-> "none"]
  /\ UNCHANGED <<relayVars, boot, db, dbQueue, sweeps, now, registered, started, pushes,
                 routerVars>>

\* The Registry process is killed and started again: the Map, the statements
\* db.run had queued, the sweeps and the handlers awaiting a push are gone with
\* the process; servers.db stays, and startServer issues loadServersFromDB.
Restart ==
  /\ boot.n < MaxRestarts
  /\ boot' = [n |-> boot.n + 1, before |-> servers]
  /\ servers' = <<>>
  /\ dbQueue' = <<>>
  /\ sweeps' = <<>>
  /\ pushes' = <<>>
  /\ loading' = [pending |-> TRUE, rows |-> db]
  /\ last' = [op |-> "restart", status |-> "none"]
  /\ UNCHANGED <<relayVars, db, now, registered, started, routerVars>>

----------------------------------------------------------------------------
(* Registry: healthCheck, started by setInterval every 5 minutes. *)

RemoveAt(q, i) ==
  [j \in 1..(Len(q) - 1) |-> IF j < i THEN q[j] ELSE q[j + 1]]

\* for (const id of serverIds) { const server = servers.get(id);
\*   if (!server) continue; ...: the ids from the first one still in the Map.
RECURSIVE SkipMissing(_, _)
SkipMissing(tbl, ids) ==
  IF ids = <<>> \/ MapHas(tbl, Head(ids)) THEN ids
  ELSE SkipMissing(tbl, Tail(ids))

\* A sweep awaiting pingServer(server): the ids still to visit, the Server
\* object it holds (orphan: the Map no longer holds that object), the flag
\* serverListChanged and, as history, gone: the ids whose probe failed in
\* this sweep and that have not registered again since; removed: whether a
\* servers.delete of this sweep removed a record; arrived: the ids /register
\* has stored since this sweep started.
SweepAt(tbl, ids, changed, gone, removed, arrived) ==
  [rest |-> Tail(ids), cur |-> MapGet(tbl, Head(ids)), orphan |-> FALSE,
   changed |-> changed, gone |-> gone, removed |-> removed,
   arrived |-> arrived]

\* healthCheck() up to its first await.  The timer first fires 5 minutes after
\* startup, when the startup load is over.
HealthCheck ==
  /\ ~loading.pending
  /\ IF servers = <<>>
     THEN /\ sweeps' = sweeps
          /\ last' = [op |-> "sweep-end", status |-> "none", pushed |-> FALSE]
     ELSE /\ sweeps' = Append(sweeps, SweepAt(servers, MapKeys(servers), FALSE, {}, FALSE, {}))
          /\ last' = [op |-> "sweep-start", status |-> "none"]
  /\ UNCHANGED <<relayVars, boot, servers, db, dbQueue, loading, now, registered, pushes,
                 routerVars>>

\* One of the first MaxSweeps calls of healthCheck().
HealthCheckStart ==
  /\ started < MaxSweeps
  /\ started' = started + 1
  /\ HealthCheck

\* The timer fires when no earlier sweep is in progress.
SweepStart == sweeps = <<>> /\ HealthCheckStart

\* The timer goes on firing every 5 minutes: a later call of healthCheck(),
\* which the history counter no longer counts.
SweepRepeat ==
  /\ sweeps = <<>>
  /\ started = MaxSweeps
  /\ started' = started
  /\ HealthCheck

\* The timer fires while an earlier sweep still awaits a probe: setInterval
\* does not wait for the promise healthCheck returned.
SweepOverlap == sweeps # <<>> /\ HealthCheckStart

\* The Map after the probe of the sweep's current server has answered.
AfterProbeKeepingDead(s, alive, t) ==
  IF alive /\ ~s.orphan
  THEN MapSet(servers, [MapGet(servers, s.cur.id) EXCEPT !.lastSeen = t])
  ELSE servers
AfterProbe(s, alive, t) ==
  IF alive
  THEN IF s.orphan THEN servers
       ELSE MapSet(servers, [MapGet(servers, s.cur.id) EXCEPT !.lastSeen = t])
  ELSE MapDelete(servers, s.cur.id)

\* let serverListChanged after the probe.
ChangedAfterProbe(s, alive) == s.changed \/ ~alive

\* if (serverListChanged) await pushServerListToRoutingServer()
SweepPushes(tbl, changed, gone) ==
  IF changed THEN <<PushMessage(tbl, "sweep", Undefined, gone)>> ELSE <<>>

\* pingServer answers for sweep i (alive: status 200 within 5 s); the loop
\* then runs on to its next await, or to the push at its end.
SweepProbe(i, alive) ==
  LET s == sweeps[i]
      id == s.cur.id
  IN
  /\ Len(dbQueue) < MaxDbQueue
  /\ Len(pushes) < MaxPushes
  /\ \E t \in (IF alive THEN now..MaxTime ELSE {now}) :
       LET tbl == AfterProbe(s, alive, t)
           saved == IF s.orphan THEN [s.cur EXCEPT !.lastSeen = t]
                    ELSE [MapGet(servers, id) EXCEPT !.lastSeen = t]
           changed == ChangedAfterProbe(s, alive)
           gone == IF alive THEN s.gone ELSE s.gone \cup {id}
           removed == s.removed \/ (~alive /\ MapHas(servers, id))
           ids == SkipMissing(tbl, s.rest)
           others == [j \in 1..Len(sweeps) |->
                        IF ~alive /\ j # i /\ sweeps[j].cur.id = id
                        THEN [sweeps[j] EXCEPT !.orphan = TRUE]
                        ELSE sweeps[j]]
       IN  /\ servers' = tbl
           /\ now' = t
           /\ dbQueue' = IF alive THEN SaveServerToDB(dbQueue, saved)
                         ELSE RemoveServerFromDB(dbQueue, id)
           /\ IF ids # <<>>
              THEN /\ sweeps' = [others EXCEPT ![i] = SweepAt(tbl, ids, changed, gone, removed, s.arrived)]
                   /\ pushes' = pushes
              ELSE /\ sweeps' = RemoveAt(others, i)
                   /\ pushes' = pushes \o SweepPushes(tbl, changed, gone)
           /\ last' = [op |-> "probe", status |-> "none", id |-> id, alive |-> alive,
                       ended |-> (ids = <<>>), pushed |-> (ids = <<>> /\ changed),
                       removed |-> removed, sweep |-> i, arrived |-> s.arrived]
  /\ UNCHANGED <<relayVars, boot, db, loading, registered, started, routerVars>>

----------------------------------------------------------------------------
(* Router (routing-server). *)

LocDefault == <<"d", "e", "f", "a", "u", "l", "t">>
UrlFallback ==
  <<"w", "s", "s", ":", "/", "/", "f", "a", "l", "l", "b", "a", "c", "k", ".",
    "0", "x", "4", "0", "9", ".", "n", "l", "/">>

Entry(l, u) == [location |-> l, url |-> u]

fallbackServer == Entry(Str(LocDefault), Str(UrlFallback))

\* The caller identities (req.ip) of the model.
Ips == {"10.0.0.1", "10.0.0.2"}

\* The location of a /route body.
LocationHints == {Str(LocUs), Str(LocEu)}

\* serverList.find(s => s.location === location), then its url or the
\* fallback's.
RECURSIVE FindLast(_, _)
FindLast(list, location) ==
  IF list = <<>> THEN Undefined
  ELSE IF FindLast(Tail(list), location) # Undefined
       THEN FindLast(Tail(list), location)
  ELSE IF Head(list).location = location THEN Head(list).url
  ELSE Undefined
RECURSIVE Find(_, _)
Find(list, location) ==
  IF list = <<>> THEN Undefined
  ELSE IF Head(list).location = location THEN Head(list).url
  ELSE Find(Tail(list), location)

getServerForLocationNoFallback(list, location) == Find(list, location)
getServerForLocation(list, location) ==
  IF Find(list, location) # Undefined THEN Find(list, location)
  ELSE fallbackServer.url

\* let server = await getCachedServer(ip); if (!server) server = ...
RouteServerIgnoringCache(got, list, location) ==
  getServerForLocation(list, location)
RouteServer(got, list, location) ==
  IF Truthy(got) THEN got ELSE getServerForLocation(list, location)

\* POST /route up to the SELECT of getCachedServer.  prev is history: the
\* endpoint the last call of this ip returned, when the cache row and the
\* snapshot have not been written since.
RouteRead(ip, location) ==
  /\ Len(routes) < MaxRoutes
  /\ routes' = Append(routes, [ip |-> ip, location |-> location, got |-> cache[ip],
                               prev |-> stable[ip]])
  /\ last' = [op |-> "route-read", status |-> "none"]
  /\ UNCHANGED <<relayVars, regVars, pushes, serverList, cache, expectedToken, snapIds, stable>>

\* The rest of POST /route, run when getCachedServer resolves.
RouteRespond(i) ==
  LET r == routes[i]
      miss == ~Truthy(r.got)
      server == RouteServer(r.got, serverList, r.location)
      rest == RemoveAt(routes, i)
  IN
  /\ cache' = IF miss THEN [cache EXCEPT ![r.ip] = server] ELSE cache
  /\ routes' = IF miss
               THEN [j \in 1..Len(rest) |->
                       IF rest[j].ip = r.ip
                       THEN [rest[j] EXCEPT !.prev = Null]
                       ELSE rest[j]]
               ELSE rest
  /\ stable' = [stable EXCEPT ![r.ip] = IF cache'[r.ip] = server THEN server ELSE Null]
  /\ last' = [op |-> "route", status |-> "200", ip |-> r.ip, location |-> r.location,
              body |-> server, prev |-> r.prev, miss |-> miss]
  /\ UNCHANGED <<relayVars, regVars, pushes, serverList, expectedToken, snapIds>>

\* authenticateSyncServer: "next", or the status it answers.
AuthStatusAcceptingAnyBearer(auth) ==
  IF ~Truthy(expectedToken) THEN "next"
  ELSE IF ~Truthy(auth) \/ ~StartsWith(auth.text, BearerPrefix) THEN "401"
  ELSE "next"
AuthStatus(auth) ==
  IF ~Truthy(expectedToken) THEN "next"
  ELSE IF ~Truthy(auth) \/ ~StartsWith(auth.text, BearerPrefix) THEN "401"
  ELSE IF Substring(auth.text, 7) # expectedToken.text THEN "403"
  ELSE "next"

\* The checks of one entry of the pushed list; "500" is the TypeError of
\* server.url.startsWith, which the handler's try/catch answers.
EntryStatus(e) ==
  IF ~Truthy(e.location) \/ ~Truthy(e.url) THEN "400"
  ELSE IF e.url.kind # "string" THEN "500"
  ELSE IF ~HasWsScheme(e.url.text) THEN "400"
  ELSE IF ~UrlParses(e.url.text) THEN "400"
  ELSE "ok"

\* for (const server of newServerList): the first entry that fails decides.
RECURSIVE EntriesStatus(_)
EntriesStatus(items) ==
  IF items = <<>> THEN "200"
  ELSE IF EntryStatus(Head(items)) # "ok" THEN EntryStatus(Head(items))
  ELSE EntriesStatus(Tail(items))

\* The status POST /update-servers answers.
UpdateStatus(req) ==
  IF AuthStatus(req.auth) # "next" THEN AuthStatus(req.auth)
  ELSE IF ~req.isArray THEN "400"
  ELSE EntriesStatus(req.items)

\* The route cache after an accepted update: the handler leaves it alone.
CacheAfterUpdate(c, list) == c

\* POST /update-servers for request req; ids (history) are the Registry ids
\* behind its entries.
UpdateServers(req, ids) ==
  LET accepted == UpdateStatus(req) = "200"
  IN
  /\ serverList' = IF accepted THEN req.items ELSE serverList
  /\ cache' = IF accepted THEN CacheAfterUpdate(cache, req.items) ELSE cache
  /\ snapIds' = IF accepted THEN ids ELSE snapIds
  /\ stable' = IF accepted THEN [ip \in Ips |-> Null] ELSE stable
  /\ routes' = IF accepted
               THEN [j \in 1..Len(routes) |-> [routes[j] EXCEPT !.prev = Null]]
               ELSE routes
  /\ UNCHANGED expectedToken

\* syncServerList(): serverList becomes the body of the Registry's GET /list,
\* or [fallbackServer] when the request fails.
PulledLists(tbl) == {Projection(tbl), <<fallbackServer>>}

\* The Router process is killed and started again: serverList and the
\* handlers awaiting a SELECT are gone with the process; cache.db is a file,
\* which new sqlite3.Database('./cache.db') opens again and whose rows CREATE
\* TABLE IF NOT EXISTS leaves; startServer awaits syncServerList() before it
\* listens.
RouterRestart ==
  /\ \E list \in PulledLists(servers) :
       /\ serverList' = list
       /\ snapIds' = IF list = <<fallbackServer>> THEN <<>> ELSE MapKeys(servers)
  /\ cache' = cache
  /\ routes' = <<>>
  /\ stable' = [ip \in Ips |-> Null]
  /\ last' = [op |-> "router-restart", status |-> "none"]
  /\ UNCHANGED <<relayVars, regVars, pushes, expectedToken>>

EntryA == Entry(Str(LocUs), Str(UrlA))
EntryB == Entry(Str(LocEu), Str(UrlB))
EntryA2 == Entry(Str(LocUs), Str(UrlB))

UpdReq(items, auth) == [isArray |-> TRUE, items |-> items, auth |-> auth]

Bearer(tok) == Str(BearerPrefix \o tok)

\* Requests a client of the Router can post to /update-servers.
UpdateRequests ==
  { UpdReq(<<>>, Bearer(Token)),
    UpdReq(<<EntryA>>, Bearer(Token)),
    UpdReq(<<EntryB>>, Bearer(Token)),
    UpdReq(<<EntryA, EntryB>>, Bearer(Token)),
    UpdReq(<<EntryA, EntryA2>>, Bearer(Token)),
    UpdReq(<<EntryA>>, Undefined),
    UpdReq(<<EntryB>>, Str(Token)),
    UpdReq(<<EntryB>>, Bearer(WrongToken)),
    UpdReq(<<EntryA, Entry(Undefined, Str(UrlB))>>, Bearer(Token)),
    UpdReq(<<EntryA, Entry(Str(LocEu), Str(UrlHttp))>>, Bearer(Token)),
    UpdReq(<<EntryA, Entry(Str(LocEu), Str(UrlNoHost))>>, Bearer(Token)),
    UpdReq(<<EntryA, Entry(Str(LocEu), Num(<<"7">>))>>, Bearer(Token)),
    [isArray |-> FALSE, items |-> <<>>, auth |-> Bearer(Token)] }

\* POST /update-servers from a client of the Router.
ClientUpdate(req) ==
  /\ UpdateServers(req, <<>>)
  /\ last' = [op |-> "update-servers", status |-> UpdateStatus(req), req |-> req,
              src |-> "client", gone |-> {}]
  /\ UNCHANGED <<relayVars, regVars, pushes>>

\* The arrays the server at SYNC_SERVER_URL can answer GET /list with: the
\* lists a client can push.
ListBodies == {req.items : req \in {r \in UpdateRequests : r.isArray}}

\* startServer of a Router that starts: await syncServerList().  answered:
\* axios.get resolved with body items, and serverList = response.data as it
\* is; otherwise the catch sets serverList = [fallbackServer].
RouterPull(items, answered) ==
  /\ serverList' = IF answered THEN items ELSE <<fallbackServer>>
  /\ snapIds' = <<>>
  /\ cache' = cache
  /\ routes' = <<>>
  /\ stable' = [ip \in Ips |-> Null]
  /\ last' = [op |-> "router-pull", status |-> "none", items |-> items,
              answered |-> answered]
  /\ UNCHANGED <<relayVars, regVars, pushes, expectedToken>>

----------------------------------------------------------------------------
(* The push link: the axios.post of pushServerListToRoutingServer. *)

\* How the await of axios.post ends for the status the Router answers: axios
\* rejects on a status outside 2xx.
PushOutcome(status) == IF status = "200" THEN "delivered" ELSE "failed"

\* The request of push i reaches the Router, which answers it.  A /register
\* handler is then resumed (RegisterReply); a sweep has nothing left to do.
PushDeliver(i) ==
  LET m == pushes[i]
  IN
  /\ m.phase = "sent"
  /\ UpdateServers(m.req, m.ids)
  /\ pushes' = IF m.src = "register"
               THEN [pushes EXCEPT ![i].phase = PushOutcome(UpdateStatus(m.req))]
               ELSE RemoveAt(pushes, i)
  /\ last' = [op |-> "update-servers", status |-> UpdateStatus(m.req), req |-> m.req,
              src |-> m.src, gone |-> m.gone]
  /\ UNCHANGED <<relayVars, regVars>>

\* The request of push i fails before the handler runs (no connection, or the
\* 429 of the rate limiter): axios throws and the error is logged.
PushFail(i) ==
  LET m == pushes[i]
  IN
  /\ m.phase = "sent"
  /\ pushes' = IF m.src = "register" THEN [pushes EXCEPT ![i].phase = "failed"]
               ELSE RemoveAt(pushes, i)
  /\ last' = [op |-> "push-failed", status |-> "none", src |-> m.src]
  /\ UNCHANGED <<relayVars, regVars, routerVars>>

----------------------------------------------------------------------------
(* Relay (actual-vpn-server): main() and its registration loop. *)

\* The registrations a Relay can post: -id, -location and the domain it has
\* detected, all well formed.
RelayRegistrations == ValidRegisterRequests

\* The Relay process starts: main() parses its flags, starts the HTTP server,
\* finds its domain and reaches the loop "Register with sync server".
RelayStart(req) ==
  /\ relay.pc = "off"
  /\ relay' = [pc |-> "loop", req |-> req, sid |-> Undefined, starts |-> 1]
  /\ last' = [op |-> "relay-start", status |-> "none"]
  /\ UNCHANGED <<conns, handles, regVars, pushes, routerVars>>

\* A Relay that is not in the middle of a POST and carries no session is
\* stopped and started again with the same -id; its domain is detected anew.
RelayRestart(req) ==
  /\ relay.pc \in {"loop", "sleep", "registered"}
  /\ relay.starts < MaxRelayStarts
  /\ req.id = relay.req.id
  /\ conns = <<>>
  /\ relay' = [pc |-> "loop", req |-> req, sid |-> Undefined,
               starts |-> relay.starts + 1]
  /\ last' = [op |-> "relay-start", status |-> "none"]
  /\ UNCHANGED <<conns, handles, regVars, pushes, routerVars>>

\* One iteration of the loop whose POST /register the Registry answers with
\* another status than 200: registerWithSyncServer returns an error, and
\* main() logs it and sleeps 10 seconds.
RelayRejected ==
  /\ relay.pc = "loop"
  /\ RegisterRejectOf(relay.req)
  /\ relay' = [relay EXCEPT !.pc = "sleep"]

\* time.Sleep(10 * time.Second) is over: continue.
RelaySleep ==
  /\ relay.pc = "sleep"
  /\ relay' = [relay EXCEPT !.pc = "loop"]
  /\ last' = [op |-> "relay-retry", status |-> "none"]
  /\ UNCHANGED <<conns, handles, regVars, pushes, routerVars>>

\* One iteration whose POST passes the checks of /register: the handler
\* stores the record and awaits its push, http.Post awaits the response.
RelayAccepted ==
  /\ relay.pc = "loop"
  /\ RegisterStoreWithin(relay.req, MaxPushes)
  /\ relay' = [relay EXCEPT !.pc = "posted", !.sid = last'.serverId]

\* The handler of the Relay's POST answers: with status 200
\* registerWithSyncServer returns nil and main() breaks out of the loop, to
\* select {}.
RelayReplied(i) ==
  /\ relay.pc = "posted"
  /\ pushes[i].src = "register"
  /\ pushes[i].waiter = relay.sid
  /\ RegisterReplyOf(i)
  /\ relay' = [relay EXCEPT !.pc = IF ReplyStatus(pushes[i].phase) = "200"
                                   THEN "registered" ELSE "sleep"]

----------------------------------------------------------------------------
(* Relay (actual-vpn-server): handleWebSocket.  Tunnel server (src/main.go, *)
(* server mode): the handler of "/".  Both run the same Tunnel.             *)

\* The Origin header of an upgrade request; "" when the header is missing.
Origins == {"", "http://localhost", "https://evil.example"}

\* The subprotocols an upgrade request asks for (Sec-WebSocket-Protocol).
ProtocolSets == {{}, {"vpn-protocol"}, {"chat"}}

\* Requests to /ws.  handshake: the request is a WebSocket handshake (GET,
\* Connection: Upgrade, Upgrade: websocket, version 13, a key).
WsRequests ==
  [origin : Origins, protocols : ProtocolSets, handshake : BOOLEAN]

\* CheckOrigin: func(r *http.Request) bool { return true }
CheckOrigin(req) == TRUE

\* upgrader.Upgrade(w, r, nil): the status it answers.  The Upgrader names no
\* Subprotocols, so none is negotiated and none is required.
Upgrade(req) ==
  IF ~req.handshake THEN "400"
  ELSE IF ~CheckOrigin(req) THEN "403"
  ELSE "101"

\* websocket.Upgrader{} of src/main.go has no CheckOrigin: the default lets
\* a request pass when it has no Origin header or when the Origin's host is
\* the request's Host, here localhost.
CheckSameOrigin(req) == req.origin \in {"", "http://localhost"}

UpgradeDefault(req) ==
  IF ~req.handshake THEN "400"
  ELSE IF ~CheckSameOrigin(req) THEN "403"
  ELSE "101"

\* make([]byte, 4096)
BufLen == 4096

\* The lengths of the messages a peer sends.
MessageLengths == {1, BufLen, BufLen + 1}

\* A connection as the process holds it.  A peer's bytes are numbered from 1
\* in the order it writes them, and a run of bytes is the pair [lo, hi].
\* closed: the process has called Close; peer: the far end is open or has
\* closed; inbox: the messages the peer has sent and ReadMessage has not
\* returned yet; sent, msgs: the number of bytes and of messages the peer
\* has written; got: the runs written to the peer, in order, each with the
\* handle it was read from.
NewHandle ==
  [closed |-> FALSE, peer |-> "open", inbox |-> <<>>, sent |-> 0,
   msgs |-> 0, got |-> <<>>]

\* A copyData loop: not started, blocked in or about to call src.Read,
\* holding n bytes of buf for dst.Write, returned, or panicked.
LoopOff == [pc |-> "off", lo |-> 0, hi |-> 0]
LoopRead == [pc |-> "read", lo |-> 0, hi |-> 0]
LoopStopped == [pc |-> "stopped", lo |-> 0, hi |-> 0]
LoopPanic == [pc |-> "panic", lo |-> 0, hi |-> 0]

\* up is go t.copyData(t.localConn, t.remoteConn), down the call
\* t.copyData(t.remoteConn, t.localConn) of handleConnection itself.
Directions == {"up", "down"}
SrcOf(c, d) == IF d = "up" THEN c.localConn ELSE c.remoteConn
DstOf(c, d) == IF d = "up" THEN c.remoteConn ELSE c.localConn
LoopOf(c, d) == IF d = "up" THEN c.up ELSE c.down
Other(d) == IF d = "up" THEN "down" ELSE "up"

NewConn(via, req, egress) ==
  [state |-> "AWAITING_UPGRADE", via |-> via, req |-> req, egress |-> egress,
   localConn |-> 0, remoteConn |-> 0, up |-> LoopOff, down |-> LoopOff]

\* A panic in a goroutine ends the process it runs in.
Crashed(via) ==
  \E i \in 1..Len(conns) :
    /\ conns[i].via = via
    /\ \E d \in Directions : LoopOf(conns[i], d).pc = "panic"

\* A status that tells a Relay with sessions from an idle one.
HealthStatusWhenIdle(cs) ==
  IF \E i \in 1..Len(cs) : cs[i].via = "relay" /\ cs[i].state = "TUNNELING"
  THEN "503" ELSE "200"

\* handleHealth: w.WriteHeader(http.StatusOK), for any sessions cs.
HealthStatus(cs) == "200"

\* GET /health of a Relay whose process runs: handleHealth writes the status
\* and the body "OK".
RelayHealth ==
  /\ ~Crashed("relay")
  /\ last' = [op |-> "health", status |-> HealthStatus(conns), body |-> "OK"]
  /\ UNCHANGED <<relayVars, regVars, pushes, routerVars>>

\* A request reaches /ws of the Relay; net/http has accepted its connection.
RelayRequest(req) ==
  /\ Len(conns) < MaxConns
  /\ ~Crashed("relay")
  /\ conns' = Append(conns, NewConn("relay", req, FALSE))
  /\ last' = [op |-> "ws-request", status |-> "none"]
  /\ UNCHANGED <<handles, relay, regVars, pushes, routerVars>>

\* handleWebSocket up to the return of Upgrade: on an error the handler logs
\* it and returns.
RelayUpgrade(i) ==
  /\ conns[i].via = "relay"
  /\ conns[i].state = "AWAITING_UPGRADE"
  /\ ~Crashed("relay")
  /\ conns' = [conns EXCEPT ![i].state =
                 IF Upgrade(conns[i].req) = "101" THEN "HANDSHAKE_VALIDATED"
                 ELSE "CLOSED"]
  /\ last' = [op |-> "ws-upgrade", status |-> Upgrade(conns[i].req)]
  /\ UNCHANGED <<handles, relay, regVars, pushes, routerVars>>

\* go tunnel.handleConnection(): the deferred Close calls are registered and
\* both loops start.
StartLoops(c, local, remote) ==
  [c EXCEPT !.state = "TUNNELING", !.localConn = local,
            !.remoteConn = remote, !.up = LoopRead, !.down = LoopRead]

\* The rest of handleWebSocket: wsConn := &WSConn{conn}, the Tunnel with
\* wsConn on both sides, and go tunnel.handleConnection().
RelayTunnel(i) ==
  /\ conns[i].via = "relay"
  /\ conns[i].state = "HANDSHAKE_VALIDATED"
  /\ ~Crashed("relay")
  /\ handles' = Append(handles, NewHandle)
  /\ conns' = [conns EXCEPT
                 ![i] = StartLoops(@, Len(handles) + 1, Len(handles) + 1)]
  /\ last' = [op |-> "ws-tunnel", status |-> "none"]
  /\ UNCHANGED <<relay, regVars, pushes, routerVars>>

\* len(os.Args) > 2 is the same for every request a process serves.
EgressChoices ==
  LET served == {i \in 1..Len(conns) : conns[i].via = "server"}
  IN  IF served = {} THEN BOOLEAN
      ELSE {conns[i].egress : i \in served}

\* A request reaches "/" of the tunnel server.
ServerRequest(req, egress) ==
  /\ Len(conns) < MaxConns
  /\ ~Crashed("server")
  /\ egress \in EgressChoices
  /\ conns' = Append(conns, NewConn("server", req, egress))
  /\ last' = [op |-> "srv-request", status |-> "none"]
  /\ UNCHANGED <<handles, relay, regVars, pushes, routerVars>>

\* The handler up to the return of Upgrade.
ServerUpgrade(i) ==
  /\ conns[i].via = "server"
  /\ conns[i].state = "AWAITING_UPGRADE"
  /\ ~Crashed("server")
  /\ conns' = [conns EXCEPT ![i].state =
                 IF UpgradeDefault(conns[i].req) = "101"
                 THEN "HANDSHAKE_VALIDATED" ELSE "CLOSED"]
  /\ last' = [op |-> "srv-upgrade", status |-> UpgradeDefault(conns[i].req)]
  /\ UNCHANGED <<handles, relay, regVars, pushes, routerVars>>

\* The rest of the handler.  With os.Args[2] it dials the egress: on an
\* error it closes conn and returns, otherwise remoteConn wraps the dialled
\* connection.  Without os.Args[2] remoteConn = &WSConn{conn}, a second
\* wrapper of the inbound connection.
ServerTunnel(i, dialed) ==
  /\ conns[i].via = "server"
  /\ conns[i].state = "HANDSHAKE_VALIDATED"
  /\ ~Crashed("server")
  /\ LET local == Len(handles) + 1
     IN  IF ~conns[i].egress
         THEN /\ dialed
              /\ handles' = Append(handles, NewHandle)
              /\ conns' = [conns EXCEPT ![i] = StartLoops(@, local, local)]
              /\ last' = [op |-> "srv-tunnel", status |-> "echo"]
         ELSE IF dialed
         THEN /\ handles' = handles \o <<NewHandle, NewHandle>>
              /\ conns' = [conns EXCEPT
                             ![i] = StartLoops(@, local, local + 1)]
              /\ last' = [op |-> "srv-tunnel", status |-> "dialed"]
         ELSE /\ handles' = Append(handles, [NewHandle EXCEPT !.closed = TRUE])
              /\ conns' = [conns EXCEPT ![i].state = "CLOSED",
                                        ![i].localConn = local]
              /\ last' = [op |-> "srv-tunnel", status |-> "dial-error"]
  /\ UNCHANGED <<relay, regVars, pushes, routerVars>>

\* The number of messages the peers have written.
RECURSIVE Written(_)
Written(hs) == IF hs = <<>> THEN 0 ELSE Head(hs).msgs + Written(Tail(hs))

\* The peer of handle h writes one message of len bytes.
PeerSend(h, len) ==
  /\ ~handles[h].closed
  /\ handles[h].peer = "open"
  /\ Written(handles) < MaxMsgs
  /\ handles' = [handles EXCEPT
       ![h].inbox = Append(@, [lo |-> handles[h].sent + 1,
                               hi |-> handles[h].sent + len]),
       ![h].sent = @ + len,
       ![h].msgs = @ + 1]
  /\ last' = [op |-> "peer-send", status |-> "none"]
  /\ UNCHANGED <<conns, relay, regVars, pushes, routerVars>>

\* The peer of handle h closes its end.
PeerClose(h) ==
  /\ handles[h].peer = "open"
  /\ handles' = [handles EXCEPT ![h].peer = "closed"]
  /\ last' = [op |-> "peer-close", status |-> "none"]
  /\ UNCHANGED <<conns, relay, regVars, pushes, routerVars>>

\* A session whose loops both call ReadMessage on one connection: the
\* websocket package supports one concurrent reader only.
RacyRead(c, d) ==
  /\ c.localConn = c.remoteConn
  /\ LoopOf(c, Other(d)).pc = "read"

\* n, err := src.Read(buf) returns.  WSConn.Read: ReadMessage returns the
\* next message or an error; copy(b, data) copies what fits; the result is
\* len(data).  On an error copyData returns.  failed: the outcome of a read
\* that races with the other loop's read may be an error.
CopyRead(i, d, failed) ==
  LET c == conns[i]
      h == SrcOf(c, d)
  IN  /\ LoopOf(c, d).pc = "read"
      /\ ~Crashed(c.via)
      /\ failed => RacyRead(c, d) /\ handles[h].inbox # <<>>
      /\ IF failed \/ handles[h].closed
            \/ (handles[h].inbox = <<>> /\ handles[h].peer = "closed")
         THEN /\ conns' = [conns EXCEPT
                    ![i] = IF d = "up" THEN [@ EXCEPT !.up = LoopStopped]
                           ELSE [@ EXCEPT !.down = LoopStopped]]
              /\ handles' = handles
              /\ last' = [op |-> "copy-read", status |-> "error"]
         ELSE /\ handles[h].inbox # <<>>
              /\ LET m == Head(handles[h].inbox)
                     held == [pc |-> "write", lo |-> m.lo, hi |-> m.hi]
                 IN  conns' = [conns EXCEPT
                       ![i] = IF d = "up" THEN [@ EXCEPT !.up = held]
                              ELSE [@ EXCEPT !.down = held]]
              /\ handles' = [handles EXCEPT ![h].inbox = Tail(@)]
              /\ last' = [op |-> "copy-read", status |-> "ok"]
      /\ UNCHANGED <<relay, regVars, pushes, routerVars>>

\* A slice expression that would stop at the end of the buffer.
SliceClamped(n) == FALSE

\* buf[:n] of a buffer of BufLen bytes: a run-time panic when n exceeds the
\* buffer's capacity.
SlicePanics(n) == n > BufLen

\* The process ends: the operating system closes every connection it held.
CrashAll(cs, via, i, d) ==
  [j \in 1..Len(cs) |->
     IF cs[j].via # via THEN cs[j]
     ELSE [cs[j] EXCEPT
             !.state = "CLOSED",
             !.up = IF j = i /\ d = "up" THEN LoopPanic
                    ELSE IF @.pc = "off" THEN @ ELSE LoopStopped,
             !.down = IF j = i /\ d = "down" THEN LoopPanic
                      ELSE IF @.pc = "off" THEN @ ELSE LoopStopped]]

HandlesOf(cs, via) ==
  {cs[j].localConn : j \in {k \in 1..Len(cs) : cs[k].via = via}}
    \cup {cs[j].remoteConn : j \in {k \in 1..Len(cs) : cs[k].via = via}}

\* A Close that releases nothing.
CloseNone(hs, ids) == hs

CloseAll(hs, ids) ==
  [h \in 1..Len(hs) |->
     IF h \in ids THEN [hs[h] EXCEPT !.closed = TRUE] ELSE hs[h]]

\* A session whose loops both call WriteMessage on one connection: the
\* websocket package supports one concurrent writer only, and panics when
\* it finds a second one.
RacyWrite(c, d) ==
  /\ c.localConn = c.remoteConn
  /\ LoopOf(c, Other(d)).pc = "write"

\* _, err = dst.Write(buf[:n]).  WSConn.Write sends b as one binary message.
\* On an error copyData returns.  raced: the write overlaps the other
\* loop's write of the same connection and the package panics.
CopyWrite(i, d, raced) ==
  LET c == conns[i]
      l == LoopOf(c, d)
      h == DstOf(c, d)
      n == l.hi - l.lo + 1
      fits == IF n > BufLen THEN l.lo + BufLen - 1 ELSE l.hi
  IN  /\ l.pc = "write"
      /\ ~Crashed(c.via)
      /\ raced => RacyWrite(c, d)
      /\ IF raced \/ SlicePanics(n)
         THEN /\ conns' = CrashAll(conns, c.via, i, d)
              /\ handles' = CloseAll(handles, HandlesOf(conns, c.via))
              /\ last' = [op |-> "copy-write", status |-> "panic"]
         ELSE IF handles[h].closed \/ handles[h].peer = "closed"
         THEN /\ conns' = [conns EXCEPT
                    ![i] = IF d = "up" THEN [@ EXCEPT !.up = LoopStopped]
                           ELSE [@ EXCEPT !.down = LoopStopped]]
              /\ handles' = handles
              /\ last' = [op |-> "copy-write", status |-> "error"]
         ELSE /\ conns' = [conns EXCEPT
                    ![i] = IF d = "up" THEN [@ EXCEPT !.up = LoopRead]
                           ELSE [@ EXCEPT !.down = LoopRead]]
              /\ handles' = [handles EXCEPT
                    ![h].got = Append(@, [from |-> SrcOf(c, d),
                                          lo |-> l.lo, hi |-> fits])]
              /\ last' = [op |-> "copy-write", status |-> "ok"]
      /\ UNCHANGED <<relay, regVars, pushes, routerVars>>

\* handleConnection returns when its own copyData returns: the deferred
\* t.remoteConn.Close() and t.localConn.Close() run.
TunnelReturn(i) ==
  /\ conns[i].state = "TUNNELING"
  /\ conns[i].down.pc = "stopped"
  /\ ~Crashed(conns[i].via)
  /\ conns' = [conns EXCEPT ![i].state = "CLOSED"]
  /\ handles' = CloseAll(handles, {conns[i].localConn, conns[i].remoteConn})
  /\ last' = [op |-> "tunnel-return", status |-> "none"]
  /\ UNCHANGED <<relay, regVars, pushes, routerVars>>

----------------------------------------------------------------------------
(* The system. *)

\* Both processes just started, on a new servers.db and a new cache.db: the
\* Registry has issued its startup load, the
\* Router has run syncServerList (the list it pulled, or the fallback alone
\* when the pull failed) and reads SYNC_SERVER_TOKEN from its environment.
Init ==
  /\ servers = <<>>
  /\ db = <<>>
  /\ dbQueue = <<>>
  /\ loading = [pending |-> TRUE, rows |-> db]
  /\ sweeps = <<>>
  /\ pushes = <<>>
  /\ now = 0
  /\ registered = 0
  /\ started = 0
  /\ serverList \in {<<>>, <<fallbackServer>>}
  /\ cache = [ip \in Ips |-> Null]
  /\ routes = <<>>
  /\ expectedToken \in {Undefined, Str(Token)}
  /\ snapIds = <<>>
  /\ stable = [ip \in Ips |-> Null]
  /\ conns = <<>>
  /\ handles = <<>>
  /\ relay = RelayOff
  /\ boot = [n |-> 0, before |-> <<>>]
  /\ last = [op |-> "init", status |-> "none"]

\* The same start, the Router having pulled no list.
InitRegistry == Init /\ serverList = <<fallbackServer>>

\* The Registry's request handlers, its storage and its pushes.
NextRegistry ==
  \/ \E req \in RegisterRequests : RegisterReject(req)
  \/ \E req \in RegisterRequests : RegisterStore(req)
  \/ \E i \in 1..Len(pushes) : RegisterReply(i)
  \/ ListServers
  \/ DbWrite
  \/ LoadServers
  \/ \E i \in 1..Len(pushes) : PushDeliver(i)
  \/ \E i \in 1..Len(pushes) : PushFail(i)

\* The steps that change the Registry's membership, and its pushes; a sweep
\* can outlast the timer's period.
NextSweeps ==
  \/ \E req \in ValidRegisterRequests : RegisterStore(req)
  \/ \E i \in 1..Len(pushes) : RegisterReply(i)
  \/ DbWrite
  \/ LoadServers
  \/ SweepStart
  \/ SweepOverlap
  \/ \E i \in 1..Len(sweeps) : \E alive \in BOOLEAN : SweepProbe(i, alive)
  \/ \E i \in 1..Len(pushes) : PushDeliver(i)
  \/ \E i \in 1..Len(pushes) : PushFail(i)

\* The same with the timer firing for ever.
NextSweepsFair == NextSweeps \/ SweepRepeat

\* Registrations and sweeps of a Registry whose startup load has completed
\* before the first relay registers.
NextLoaded ==
  \/ \E req \in ValidRegisterRequests : RegisterAfterLoad(req)
  \/ \E i \in 1..Len(pushes) : RegisterReply(i)
  \/ DbWrite
  \/ LoadServers
  \/ SweepStart
  \/ SweepOverlap
  \/ \E i \in 1..Len(sweeps) : \E alive \in BOOLEAN : SweepProbe(i, alive)
  \/ \E i \in 1..Len(pushes) : PushDeliver(i)
  \/ \E i \in 1..Len(pushes) : PushFail(i)

\* Registrations that overlap, and sweeps, with a Router that answers every
\* push.
NextPushes ==
  \/ \E req \in ValidRegisterRequests : RegisterConcurrent(req)
  \/ \E i \in 1..Len(pushes) : RegisterReply(i)
  \/ DbWrite
  \/ LoadServers
  \/ SweepStart
  \/ \E i \in 1..Len(sweeps) : \E alive \in BOOLEAN : SweepProbe(i, alive)
  \/ \E i \in 1..Len(pushes) : PushDeliver(i)

\* One Relay that registers, and is restarted, with a Registry whose timer
\* goes on firing.
NextRetry ==
  \/ \E req \in RelayRegistrations : RelayStart(req)
  \/ \E req \in RelayRegistrations : RelayRestart(req)
  \/ RelayRejected
  \/ RelaySleep
  \/ RelayAccepted
  \/ \E i \in 1..Len(pushes) : RelayReplied(i)
  \/ DbWrite
  \/ LoadServers
  \/ SweepStart
  \/ SweepRepeat
  \/ \E i \in 1..Len(sweeps) : \E alive \in BOOLEAN : SweepProbe(i, alive)
  \/ \E i \in 1..Len(pushes) : PushDeliver(i)
  \/ \E i \in 1..Len(pushes) : PushFail(i)

\* The Registry with a restart of its process, and relays that register once
\* the load has completed.
NextRestart ==
  \/ \E req \in ValidRegisterRequests : RegisterAfterLoad(req)
  \/ \E i \in 1..Len(pushes) : RegisterReply(i)
  \/ DbWrite
  \/ LoadServers
  \/ Restart
  \/ SweepStart
  \/ \E i \in 1..Len(sweeps) : \E alive \in BOOLEAN : SweepProbe(i, alive)
  \/ \E i \in 1..Len(pushes) : PushDeliver(i)
  \/ \E i \in 1..Len(pushes) : PushFail(i)

\* What a session does once it is tunnelling, and what its peers do.
NextForward ==
  \/ \E h \in 1..Len(handles) : \E len \in MessageLengths : PeerSend(h, len)
  \/ \E h \in 1..Len(handles) : PeerClose(h)
  \/ \E i \in 1..Len(conns) : \E d \in Directions : \E failed \in BOOLEAN :
       CopyRead(i, d, failed)
  \/ \E i \in 1..Len(conns) : \E d \in Directions : \E raced \in BOOLEAN :
       CopyWrite(i, d, raced)
  \/ \E i \in 1..Len(conns) : TunnelReturn(i)

\* The Relay's handler, its clients silent once they are connected.
NextRelay ==
  \/ \E req \in WsRequests : RelayRequest(req)
  \/ \E i \in 1..Len(conns) : RelayUpgrade(i)
  \/ \E i \in 1..Len(conns) : RelayTunnel(i)

\* The requests of the sessions that are followed to their end.
SessionRequests ==
  {req \in WsRequests : req.protocols = {} /\ req.origin = ""}

\* The Relay's sessions from the request to the end.
NextSession ==
  \/ \E req \in SessionRequests : RelayRequest(req)
  \/ \E i \in 1..Len(conns) : RelayUpgrade(i)
  \/ \E i \in 1..Len(conns) : RelayTunnel(i)
  \/ NextForward

\* The same, with the Registry's probes and anyone else asking /health.
NextHealth ==
  \/ NextSession
  \/ RelayHealth

\* The requests the tunnel server is sent: handshakes, one of them from
\* another origin.
ServerRequests ==
  {req \in WsRequests : req.handshake /\ req.protocols = {}
                          /\ req.origin # "http://localhost"}

\* The first request the tunnel server is sent.
ServerRequestFirst(req, egress) == conns = <<>> /\ ServerRequest(req, egress)

\* The tunnel server serving one session.
NextTeardown ==
  \/ \E req \in ServerRequests : \E egress \in BOOLEAN :
       ServerRequestFirst(req, egress)
  \/ \E i \in 1..Len(conns) : ServerUpgrade(i)
  \/ \E i \in 1..Len(conns) : \E dialed \in BOOLEAN : ServerTunnel(i, dialed)
  \/ NextForward

NextTunnel ==
  \/ \E req \in ServerRequests : \E egress \in BOOLEAN :
       ServerRequest(req, egress)
  \/ \E i \in 1..Len(conns) : ServerUpgrade(i)
  \/ \E i \in 1..Len(conns) : \E dialed \in BOOLEAN : ServerTunnel(i, dialed)
  \/ NextForward

\* The pushes of well-formed lists with the token.
WellFormedUpdates ==
  {req \in UpdateRequests :
     req.auth = Bearer(Token) /\ EntriesStatus(req.items) = "200"}

\* The Router with its clients and the lists it is pushed.
NextRouter ==
  \/ \E ip \in Ips : \E location \in LocationHints : RouteRead(ip, location)
  \/ \E i \in 1..Len(routes) : RouteRespond(i)
  \/ \E req \in WellFormedUpdates : ClientUpdate(req)

\* One client of /route, and every request /update-servers can be sent.
NextUpdates ==
  \/ \E ip \in {"10.0.0.1"} : \E location \in LocationHints : RouteRead(ip, location)
  \/ \E i \in 1..Len(routes) : RouteRespond(i)
  \/ \E req \in UpdateRequests : ClientUpdate(req)

\* The two ways a list reaches the Router: the pull of a start, and a push.
NextPull ==
  \/ \E items \in ListBodies : \E answered \in BOOLEAN :
       RouterPull(items, answered)
  \/ \E req \in UpdateRequests : ClientUpdate(req)

\* The Router, its callers, well-formed pushes, and restarts of its process.
NextRouterRestart ==
  \/ \E ip \in Ips : \E location \in LocationHints : RouteRead(ip, location)
  \/ \E i \in 1..Len(routes) : RouteRespond(i)
  \/ \E req \in WellFormedUpdates : ClientUpdate(req)
  \/ RouterRestart

Next ==
  \/ NextRegistry
  \/ NextSweepsFair
  \/ NextRestart
  \/ NextRouter
  \/ NextUpdates
  \/ NextRouterRestart
  \/ NextPull
  \/ NextRelay
  \/ NextSession
  \/ NextTeardown
  \/ NextTunnel
  \/ NextLoaded
  \/ NextPushes
  \/ NextRetry
  \/ NextHealth

\* The whole system.
Spec == Init /\ [][Next]_vars

\* The Registry's request handlers, the push link and the Router's
\* /update-servers.
SpecRegistry == InitRegistry /\ [][NextRegistry]_vars

\* Registrations and sweeps, overlapping sweeps included.
SpecSweeps == InitRegistry /\ [][NextSweeps]_vars
SpecLoaded == InitRegistry /\ [][NextLoaded]_vars
SpecPushes == InitRegistry /\ [][NextPushes]_vars

\* The Relay's loop and the Registry where what is ready runs: the loop
\* iterates, a queued statement is executed, a push and a probe in progress
\* end, and the timer fires again.  The POST that the Registry would accept is
\* eventually handled, although the bounds of the model delay it.
SpecRetry ==
  /\ InitRegistry
  /\ [][NextRetry]_vars
  /\ WF_vars(\E req \in RelayRegistrations : RelayStart(req))
  /\ WF_vars(RelayRejected)
  /\ WF_vars(RelaySleep)
  /\ SF_vars(RelayAccepted)
  /\ WF_vars(\E i \in 1..Len(pushes) : RelayReplied(i))
  /\ WF_vars(DbWrite)
  /\ WF_vars(LoadServers)
  /\ WF_vars(\E i \in 1..Len(pushes) : PushDeliver(i) \/ PushFail(i))
  /\ WF_vars(\E i \in 1..Len(sweeps) : \E alive \in BOOLEAN : SweepProbe(i, alive))
  /\ WF_vars(SweepStart \/ SweepRepeat)

\* Registrations and sweeps where the event loop runs what is ready: a queued
\* statement is executed, the startup load calls back, a push and a probe in
\* flight end, a handler whose push is over answers, and the timer fires.
SpecSweepsFair ==
  /\ InitRegistry
  /\ [][NextSweepsFair]_vars
  /\ WF_vars(DbWrite)
  /\ WF_vars(LoadServers)
  /\ WF_vars(\E i \in 1..Len(pushes) : PushDeliver(i) \/ PushFail(i))
  /\ WF_vars(\E i \in 1..Len(pushes) : RegisterReply(i))
  /\ WF_vars(\E i \in 1..Len(sweeps) : \E alive \in BOOLEAN : SweepProbe(i, alive))
  /\ WF_vars(SweepStart \/ SweepRepeat)

\* Registrations and sweeps around a restart of the Registry.
SpecRestart == InitRegistry /\ [][NextRestart]_vars

\* The Relay and its clients, beside a Registry and a Router that stay idle.
SpecRelay == InitRegistry /\ [][NextRelay]_vars

\* The Relay's sessions and the peers of their connections.
SpecSession == InitRegistry /\ [][NextSession]_vars

\* The Relay's sessions and its health endpoint.
SpecHealth == InitRegistry /\ [][NextHealth]_vars

\* The tunnel server of src/main.go and the peers of its connections.
SpecTunnel == InitRegistry /\ [][NextTunnel]_vars

\* One session of the tunnel server where the Go scheduler runs every
\* goroutine that can take a step: the handler goes on, a Read or a Write
\* that can return returns, handleConnection returns after its copyData.
\* Nothing makes a peer send or close.
SpecTeardown ==
  /\ InitRegistry
  /\ [][NextTeardown]_vars
  /\ WF_vars(\E i \in 1..Len(conns) : ServerUpgrade(i))
  /\ WF_vars(\E i \in 1..Len(conns) : \E dialed \in BOOLEAN :
               ServerTunnel(i, dialed))
  /\ \A d \in Directions :
       /\ WF_vars(\E i \in 1..Len(conns) : \E failed \in BOOLEAN :
                    CopyRead(i, d, failed))
       /\ WF_vars(\E i \in 1..Len(conns) : \E raced \in BOOLEAN :
                    CopyWrite(i, d, raced))
  /\ WF_vars(\E i \in 1..Len(conns) : TunnelReturn(i))

\* The Router, its callers and its restarts, beside a Registry that stays
\* idle.
SpecRouterRestart == Init /\ [][NextRouterRestart]_vars

\* The Router's snapshot, replaced by pulls and by pushes.
SpecPull == Init /\ [][NextPull]_vars

\* The Router where every SELECT of getCachedServer calls back, so that
\* every /route is answered.
SpecRouterFair ==
  /\ Init
  /\ [][NextRouter]_vars
  /\ WF_vars(\E i \in 1..Len(routes) : RouteRespond(i))

\* The Router and its clients, beside a Registry that stays idle.
SpecRouter == Init /\ [][NextRouter]_vars

\* The Router and the requests to /update-servers.
SpecUpdates == Init /\ [][NextUpdates]_vars

----------------------------------------------------------------------------
(* Properties of the Router. *)

\* The urls of the Router's snapshot.
SnapshotUrls == {serverList[k].url : k \in 1..Len(serverList)}

\* C1: every cached assignment references an endpoint of the Router's current
\* snapshot (or the fallback endpoint, which is in no list): an accepted
\* /update-servers leaves no cache row whose endpoint the new list lacks.
C1_CachedAssignmentsInSnapshot ==
  \A ip \in Ips :
    Truthy(cache[ip]) => cache[ip] \in SnapshotUrls \cup {fallbackServer.url}

\* C2: the endpoint every /route response carries is an endpoint of the
\* Router's snapshot as of the response, or the fallback endpoint.
C2_RouteReturnsSnapshotOrFallback ==
  last.op = "route" => last.body \in SnapshotUrls \cup {fallbackServer.url}

----------------------------------------------------------------------------
(* Properties of the Registry. *)

\* The ids that are keys of a table.
Ids(tbl) == {tbl[k].id : k \in 1..Len(tbl)}

\* The records of a table stored under an id.
RecordsOf(tbl, id) == {k \in 1..Len(tbl) : tbl[k].id = id}

\* The {location, url} list of a table, entry by entry.
IsListOf(list, tbl) ==
  /\ Len(list) = Len(tbl)
  /\ \A k \in 1..Len(tbl) :
       list[k] = [location |-> tbl[k].location, url |-> tbl[k].url]

\* A step of the /register handler that decides the request.
RegisterStep == last'.op \in {"register", "register-store"}

\* C4: idempotent registration.  A well-formed /register whose id is already
\* registered, with another url, is accepted and leaves exactly one record
\* under that id, holding the new url and a lastSeen read by this call.
C4_ReRegistrationReplaces ==
  [][(/\ RegisterStep
      /\ last'.req \in ValidRegisterRequests
      /\ MapHas(servers, last'.req.id)
      /\ MapGet(servers, last'.req.id).url # last'.req.url)
       => (/\ last'.op = "register-store"
           /\ Cardinality(RecordsOf(servers', last'.req.id)) = 1
           /\ MapGet(servers', last'.req.id).url = last'.req.url
           /\ MapGet(servers', last'.req.id).lastSeen >= now)]_vars

\* C5: a /register that passes validation and whose id is already a key of
\* the table is answered 409, and the table, the durable table, the statements
\* queued for it, the pushes and the Router's snapshot are left as they were.
C5_ConflictLeavesStateUnchanged ==
  [][(/\ RegisterStep
      /\ last'.req \in ValidRegisterRequests
      /\ MapHas(servers, last'.req.id))
       => (/\ last'.op = "register"
           /\ last'.status = "409"
           /\ UNCHANGED <<servers, db, dbQueue, pushes, serverList, snapIds>>)]_vars

\* C5, the case: a /register answered 409.
C5_Witness == last.op = "register" /\ last.status = "409"

\* The requests C6 names: id, location or url empty, or a url that does not
\* start with ws:// or wss://, or is no well-formed URI.
MalformedRegistration(req) ==
  \/ ~Truthy(req.id)
  \/ ~Truthy(req.location)
  \/ ~Truthy(req.url)
  \/ req.url.kind # "string"
  \/ ~(StartsWith(req.url.text, WsPrefix) \/ StartsWith(req.url.text, WssPrefix))
  \/ ~UrlParses(req.url.text)

\* C6: every such /register is answered 400 and leaves the table, the durable
\* table, the statements queued for it and the pushes as they were; and every
\* record of the table and of the durable table has a ws:// or wss:// url.
C6_MalformedRegistrationRejected ==
  [][/\ (RegisterStep /\ MalformedRegistration(last'.req))
          => (/\ last'.status = "400"
              /\ UNCHANGED <<servers, db, dbQueue, pushes>>)
     /\ \A r \in Range(servers') \cup Range(db') :
          /\ r.url.kind = "string"
          /\ StartsWith(r.url.text, WsPrefix) \/ StartsWith(r.url.text, WssPrefix)]_vars

\* C7: when /register stores a record, the table holds a record with the
\* request's location and url; GET /list answers the {location, url} list of
\* the table, entry by entry and with no other field, and changes nothing.
C7_ListIsProjection ==
  [][/\ last'.op = "register-store"
          => \E k \in 1..Len(servers') :
               /\ servers'[k].location = last'.req.location
               /\ servers'[k].url = last'.req.url
     /\ last'.op = "list"
          => (/\ IsListOf(last'.body, servers)
              /\ \A k \in 1..Len(last'.body) :
                   DOMAIN last'.body[k] = {"location", "url"}
              /\ UNCHANGED <<regVars, pushes, routerVars>>)]_vars

\* C7, the case: GET /list answered with the pair of a registered relay.
C7_Witness ==
  /\ last.op = "list"
  /\ \E req \in ValidRegisterRequests :
       [location |-> req.location, url |-> req.url] \in Range(last.body)

\* C8: eviction.  A failed probe removes the probed id from the table; an id
\* enters the table only when /register stores it; and when the Router accepts
\* the push of a sweep, its snapshot holds no id whose probe failed in that
\* sweep and that has not registered again since.
C8_Eviction ==
  [][/\ (last'.op = "probe" /\ ~last'.alive) => last'.id \notin Ids(servers')
     /\ \A id \in Ids(servers') \ Ids(servers) :
          last'.op = "register-store" /\ last'.serverId = id
     /\ (last'.op = "update-servers" /\ last'.src = "sweep" /\ last'.status = "200")
          => (/\ serverList' = last'.req.items
              /\ last'.gone \cap Range(snapIds') = {})]_vars

\* C8, the case: the Router accepts the push of a sweep in which a probe
\* failed, while another relay stays registered.
C8_Witness ==
  /\ last.op = "update-servers"
  /\ last.src = "sweep"
  /\ last.status = "200"
  /\ last.gone # {}
  /\ snapIds # <<>>

\* C9: a /register that stores a record sends a push carrying the list of the
\* table as of then; a sweep sends such a push at its end when it removed a
\* record, and no push when it removed none.
C9_PushIffMembershipChanged ==
  [][/\ last'.op = "register-store"
          => (/\ Len(pushes') = Len(pushes) + 1
              /\ IsListOf(pushes'[Len(pushes')].req.items, servers'))
     /\ (last'.op = "probe" /\ last'.ended)
          => (/\ last'.pushed <=> last'.removed
              /\ last'.pushed
                   => (/\ Len(pushes') = Len(pushes) + 1
                       /\ IsListOf(pushes'[Len(pushes')].req.items, servers')))]_vars

\* C10: with a token configured on the Router, the push of a registration or
\* of a sweep is answered 200 and the snapshot becomes the pushed list.
C10_PushAcceptedWithToken ==
  (last.op = "update-servers" /\ last.src # "client" /\ Truthy(expectedToken))
    => (last.status = "200" /\ serverList = last.req.items)

----------------------------------------------------------------------------
(* Properties of the Router's /update-servers. *)

\* A step that answers a POST /update-servers.
UpdateStep == last'.op = "update-servers"

\* The Authorization header of a request is a Bearer header.
IsBearer(auth) ==
  /\ Truthy(auth)
  /\ Len(auth.text) >= 7
  /\ SubSeq(auth.text, 1, 7) = <<"B", "e", "a", "r", "e", "r", " ">>

\* C11: with a token configured, /update-servers answers 401 to a request with
\* no Authorization header or one that is not a Bearer header, and 403 to one
\* with another token, and leaves the snapshot and the route cache as they
\* were; with no token configured no request is answered 401 or 403.
C11_AuthRejection ==
  [][UpdateStep =>
       /\ (Truthy(expectedToken) /\ ~IsBearer(last'.req.auth))
            => (last'.status = "401" /\ UNCHANGED <<serverList, cache>>)
       /\ (/\ Truthy(expectedToken)
           /\ IsBearer(last'.req.auth)
           /\ SubSeq(last'.req.auth.text, 8, Len(last'.req.auth.text))
                # expectedToken.text)
            => (last'.status = "403" /\ UNCHANGED <<serverList, cache>>)
       /\ ~Truthy(expectedToken) => last'.status \notin {"401", "403"}]_vars

\* C11, the case: a request with a wrong token, answered 403.
C11_Witness == last.op = "update-servers" /\ last.status = "403"

\* The bodies C12 names: not an array, or an entry without location or url,
\* with a url that is not ws:// or wss://, or with a malformed url.
MalformedEntry(e) ==
  \/ ~Truthy(e.location)
  \/ ~Truthy(e.url)
  \/ e.url.kind # "string"
  \/ ~(StartsWith(e.url.text, WsPrefix) \/ StartsWith(e.url.text, WssPrefix))
  \/ ~UrlParses(e.url.text)
MalformedUpdate(req) ==
  ~req.isArray \/ \E k \in 1..Len(req.items) : MalformedEntry(req.items[k])

\* C12: a /update-servers that passes authentication is answered 400 and
\* leaves the snapshot as it was when its body is malformed, and otherwise is
\* answered 200 and makes the snapshot the pushed list.
C12_UpdateAllOrNothing ==
  [][(UpdateStep /\ last'.status \notin {"401", "403"})
       => IF MalformedUpdate(last'.req)
          THEN last'.status = "400" /\ serverList' = serverList
          ELSE last'.status = "200" /\ serverList' = last'.req.items]_vars

----------------------------------------------------------------------------
(* Properties of the Router's selection. *)

\* The positions of the snapshot entries whose location is the hint.
Matches(list, location) == {k \in 1..Len(list) : list[k].location = location}

\* C17: routing fallback.  A /route that misses the cache and whose location
\* matches no entry of the snapshot is answered 200 with the fallback's url.
C17_FallbackOnNoMatch ==
  [][(last'.op = "route" /\ last'.miss /\ Matches(serverList, last'.location) = {})
       => (last'.status = "200" /\ last'.body = fallbackServer.url)]_vars

\* C17, the case: such a /route on a snapshot that holds a relay of another
\* location.
C17_Witness ==
  /\ last.op = "route"
  /\ last.miss
  /\ serverList # <<>>
  /\ fallbackServer \notin Range(serverList)
  /\ Matches(serverList, last.location) = {}
  /\ last.body = fallbackServer.url

\* C18: first match or fallback.  A /route that misses the cache is answered
\* with the url of the first entry of the snapshot, in list order, whose
\* location equals the hint, and with the fallback's url when there is none.
C18_FirstMatchOrFallback ==
  [][(last'.op = "route" /\ last'.miss)
       => LET M == Matches(serverList, last'.location)
          IN  IF M = {} THEN last'.body = fallbackServer.url
              ELSE \E k \in M : /\ \A j \in M : k <= j
                                 /\ last'.body = serverList[k].url]_vars

\* C18, the case: two entries of the snapshot match the hint, with different
\* urls, and the answer is the first one's.
C18_Witness ==
  /\ last.op = "route"
  /\ last.miss
  /\ \E j, k \in Matches(serverList, last.location) :
       /\ j < k
       /\ serverList[j].url # serverList[k].url
       /\ last.body = serverList[j].url

----------------------------------------------------------------------------
(* Properties of the Relay's upgrade. *)

\* The allow-list of the documentation: the localhost origins (the model
\* sets no TRUSTED_DOMAINS).
AllowedOrigins ==
  {"http://localhost", "https://localhost", "http://127.0.0.1",
   "https://127.0.0.1"}

\* The connections that went past the upgrade.
Upgraded == {i \in 1..Len(conns) : conns[i].state \in {"HANDSHAKE_VALIDATED", "TUNNELING"}}

\* C19: origin rejection.  No connection whose Origin header is missing or
\* is not in the allow-list passes the upgrade or reaches TUNNELING.
C19_OriginRejected ==
  \A i \in Upgraded : conns[i].req.origin \in AllowedOrigins

\* C20: subprotocol enforcement.  No connection whose request does not ask
\* for vpn-protocol passes the upgrade or reaches TUNNELING.
C20_SubprotocolEnforced ==
  \A i \in Upgraded : "vpn-protocol" \in conns[i].req.protocols

----------------------------------------------------------------------------
(* Properties of the push link and of the durable table. *)

\* C13: a failed push, or a failed startup pull, is retried.  With the
\* Router's authentication off and no registration before the startup load
\* has completed, once the table has stopped changing the snapshot becomes
\* the {location, url} list of the table and stays so.
C13_SnapshotEventuallyList ==
  (~Truthy(expectedToken) /\ [](loading.pending => servers = <<>>))
    => <>[]IsListOf(serverList, servers)

\* C14: a push failure is not surfaced to the registrant.  The /register that
\* stored a record answers 200 with the serverId whether its push was
\* delivered or failed, and neither the end of the push nor the answer
\* changes the table.
C14_PushFailureAbsorbed ==
  [][/\ last'.op = "register-reply"
          => (/\ last'.status = "200"
              /\ Truthy(last'.serverId)
              /\ servers' = servers)
     /\ last'.op \in {"push-failed", "update-servers"} => servers' = servers]_vars

\* C14, the case: a /register answered after its push failed, the record
\* being in the table.
C14_Witness ==
  /\ last.op = "register-reply"
  /\ last.push = "failed"
  /\ last.serverId \in Ids(servers)

\* The INSERT of the record of id is still queued: db.run has not executed it.
SaveQueued(id) ==
  \E k \in 1..Len(dbQueue) : dbQueue[k].op = "save" /\ dbQueue[k].id = id

\* C15: durability ordering.  When /register answers, and when the Router
\* has answered the push of a /register, the INSERT of the registered record
\* has been executed on the durable table.
C15_DurableBeforeCommitted ==
  /\ last.op = "register-reply" => ~SaveQueued(last.serverId)
  /\ \A i \in 1..Len(pushes) :
       (pushes[i].src = "register" /\ pushes[i].phase = "delivered")
         => ~SaveQueued(pushes[i].waiter)

\* C16: restart recovery.  When the load that follows a restart completes,
\* the table holds exactly the records it held when the process stopped (the
\* records registered and not evicted until then), field by field.
C16_RestartRecovers ==
  (last.op = "load" /\ boot.n > 0) => Range(servers) = Range(boot.before)

\* The sessions that forward, or have forwarded, between their two sides.
Sessions == {i \in 1..Len(conns) : conns[i].localConn # 0 /\ conns[i].remoteConn # 0}

\* The handles of a session.
Ends(i) == {conns[i].localConn, conns[i].remoteConn}

\* C24: every session that enters TUNNELING holds two distinct handles, the
\* client side and the egress side, and shares neither with another session.
C24_TwoDistinctHandles ==
  \A i \in 1..Len(conns) :
    conns[i].state = "TUNNELING" =>
      /\ conns[i].localConn # conns[i].remoteConn
      /\ \A j \in Sessions : j # i => Ends(i) \cap Ends(j) = {}

\* The runs written to handle b that were read from handle a.
Delivered(a, b) == SelectSeq(handles[b].got, LAMBDA r : r.from = a)

\* The runs, put end to end, are the first bytes of a stream of sent bytes.
IsPrefixOfStream(runs, sent) ==
  /\ \A k \in 1..Len(runs) :
       /\ runs[k].lo <= runs[k].hi
       /\ runs[k].lo = (IF k = 1 THEN 1 ELSE runs[k - 1].hi + 1)
  /\ runs # <<>> => runs[Len(runs)].hi <= sent

\* C22: byte fidelity.  In a session with two connected ends, the bytes
\* delivered to either side are a prefix of the bytes the other side wrote:
\* in order, nothing dropped, nothing twice, whatever the message sizes.
C22_ByteFidelity ==
  \A i \in Sessions :
    conns[i].localConn # conns[i].remoteConn =>
      /\ IsPrefixOfStream(Delivered(conns[i].localConn, conns[i].remoteConn),
                          handles[conns[i].localConn].sent)
      /\ IsPrefixOfStream(Delivered(conns[i].remoteConn, conns[i].localConn),
                          handles[conns[i].remoteConn].sent)

\* C22, the case: two messages of different sizes, one of them filling the
\* buffer, have been forwarded from one side to the other.
C22_Witness ==
  \E i \in Sessions :
    /\ conns[i].localConn # conns[i].remoteConn
    /\ LET runs == Delivered(conns[i].localConn, conns[i].remoteConn)
       IN  /\ Len(runs) = 2
           /\ runs[1].hi - runs[1].lo + 1 = BufLen
           /\ runs[2].hi = runs[2].lo
\* Either side of the session has closed, or a Read or a Write of one of its
\* loops has failed.
Faulted(i) ==
  /\ i \in Sessions
  /\ conns[i].up.pc # "off"
  /\ \/ \E h \in Ends(i) : handles[h].peer = "closed"
     \/ \E d \in Directions : LoopOf(conns[i], d).pc \in {"stopped", "panic"}

\* Both handles are closed, which the peers observe, and both loops have
\* stopped.
TornDown(i) ==
  /\ i \in Sessions
  /\ \A h \in Ends(i) : handles[h].closed
  /\ \A d \in Directions : LoopOf(conns[i], d).pc \in {"stopped", "panic"}

\* C21: tunnel teardown.  Once either side of an active session has closed or
\* a read or a write of a forwarding loop has failed, the session ends: both
\* handles get closed and both loops stop, whether or not the side that did
\* not fail sends anything more.  Stated for the sessions that have an
\* egress, whose loops share no connection.
C21_Teardown ==
  \A i \in 1..MaxConns :
    (Faulted(i) /\ conns[i].localConn # conns[i].remoteConn) ~> TornDown(i)
\* The place of a state in the order of the session's states.
Rank(state) ==
  CASE state = "AWAITING_UPGRADE" -> 1
    [] state = "HANDSHAKE_VALIDATED" -> 2
    [] state = "TUNNELING" -> 3
    [] state = "CLOSED" -> 4

\* The connections a session holds.
Held(i) == Ends(i) \ {0}

\* C23: the Relay's session states.  A session only moves forward along
\* AWAITING_UPGRADE, HANDSHAKE_VALIDATED, TUNNELING, CLOSED, entering
\* HANDSHAKE_VALIDATED and TUNNELING from the state before only.  CLOSED is
\* terminal: the session stays CLOSED, its handles are closed and stay
\* closed, and no Read or Write of its loops succeeds any more.
C23_SessionStates ==
  [][\A i \in 1..Len(conns) :
       /\ Rank(conns'[i].state) >= Rank(conns[i].state)
       /\ (conns'[i].state # conns[i].state
             /\ conns'[i].state \in {"HANDSHAKE_VALIDATED", "TUNNELING"})
            => Rank(conns'[i].state) = Rank(conns[i].state) + 1
       /\ conns[i].state = "CLOSED" =>
            /\ conns'[i].state = "CLOSED"
            /\ \A h \in Held(i) :
                 /\ handles[h].closed /\ handles'[h].closed
                 /\ handles'[h].got = handles[h].got
                 /\ handles'[h].inbox = handles[h].inbox
            /\ \A d \in Directions :
                 \/ LoopOf(conns'[i], d) = LoopOf(conns[i], d)
                 \/ LoopOf(conns'[i], d).pc \in {"stopped", "panic"}]_vars

\* C23, the case: the only session has forwarded bytes and is CLOSED, and a
\* Write its loop tried after that has just failed.
C23_Witness ==
  /\ Len(conns) = 1
  /\ conns[1].via = "relay"
  /\ conns[1].state = "CLOSED"
  /\ conns[1].localConn # 0
  /\ handles[conns[1].localConn].got # <<>>
  /\ last.op = "copy-write"
  /\ last.status = "error"
\* The ids a sweep has still to visit that are in a table.
StillToVisit(s, tbl) == SelectSeq(s.rest, LAMBDA id : id \in Ids(tbl))

\* C25: the sweep treats each record independently.  When the probe of a
\* record succeeds, the record stays in the table with only lastSeen changed
\* and a save of it is issued; when it fails, the record leaves the table
\* and a delete of it is issued; either way no other record changes, and a
\* sweep that has records left to visit goes on to the next of them.
C25_SweepPerRecord ==
  [][last'.op = "probe" =>
       LET s == sweeps[last'.sweep]
           id == last'.id
           rest == StillToVisit(s, servers')
           stmt == dbQueue'[Len(dbQueue')]
       IN  /\ MapDelete(servers', id) = MapDelete(servers, id)
           /\ Len(dbQueue') = Len(dbQueue) + 1
           /\ last'.alive =>
                /\ MapHas(servers', id)
                /\ MapGet(servers', id) = [s.cur EXCEPT !.lastSeen = now']
                /\ stmt.op = "save"
                /\ stmt.row = DbRow(MapGet(servers', id))
           /\ ~last'.alive =>
                /\ ~MapHas(servers', id)
                /\ stmt.op = "remove"
                /\ stmt.id = id
           /\ rest # <<>> =>
                /\ ~last'.ended
                /\ Len(sweeps') = Len(sweeps)
                /\ sweeps'[last'.sweep].cur.id = Head(rest)]_vars
\* C26: a sweep neither blocks nor undoes registrations.  While a probe of a
\* sweep is in flight /register refuses only what it refuses at any time (a
\* malformed body, an id the table holds), and when a sweep finishes the table
\* holds every record /register stored since that sweep started.
C26_SweepKeepsRegistrations ==
  [][/\ (last'.op = "register" /\ sweeps # <<>>)
          => (last'.req \notin ValidRegisterRequests
                \/ MapHas(servers, last'.req.id))
     /\ (last'.op = "probe" /\ last'.ended)
          => last'.arrived \subseteq Ids(servers')]_vars
\* C27: at most one health sweep is in progress at any time.
C27_OneSweepAtATime == Len(sweeps) <= 1
\* C28: one assignment per caller.  When two /route of one caller have both
\* read an empty cache row, the second to answer, the snapshot not having
\* been written since the first answered, answers the endpoint the first
\* assigned and leaves the row as it is, whatever its location.
C28_OneAssignmentPerCaller ==
  [][(/\ last'.op = "route"
      /\ last'.miss
      /\ Truthy(cache[last'.ip])
      /\ stable[last'.ip] = cache[last'.ip])
       => (last'.body = cache[last'.ip] /\ cache' = cache)]_vars
\* A /route of caller ip with this location has just been answered.
Routed(ip, location) ==
  last.op = "route" /\ last.ip = ip /\ last.location = location

\* C29: a cached assignment does not live for ever.  A caller that keeps
\* asking for a location is eventually answered the relay of that location,
\* once the snapshot holds one for good, whatever it was assigned before.
C29_AssignmentEvicted ==
  \A ip \in Ips : \A location \in LocationHints :
    (/\ []<>Routed(ip, location)
     /\ <>[](Find(serverList, location) # Undefined))
      => <>(Routed(ip, location) /\ last.body = Find(serverList, location))
\* C30: only the Registry persists state.  When the Router process has
\* started again, its cache holds no assignment.
C30_CacheEmptyAfterRestart ==
  last.op = "router-restart" => \A ip \in Ips : cache[ip] = Null
----------------------------------------------------------------------------
(* Properties of the last claims. *)

\* C31: the pull and the push are two paths into one replace-snapshot
\* operation.  A pull that is answered a list leaves that list as the
\* snapshot exactly when a push accepts the list (all its entries pass the
\* checks of /update-servers), and a pull that fails leaves the snapshot
\* [fallbackServer].
C31_PullAsPush ==
  [][last'.op = "router-pull" =>
       IF last'.answered
       THEN (serverList' = last'.items) <=> (EntriesStatus(last'.items) = "200")
       ELSE serverList' = <<fallbackServer>>]_vars

\* The id a record of the table was registered with: the requests the handler
\* accepts carry IdLong, stored as it is, or IdShort, stored under a minted
\* id.
SuppliedId(id) == IF id.text \in MintPool THEN Str(IdShort) ELSE id

\* C32: /register stores the record under the id it returns.  When the
\* handler has stored a record, the table maps serverId to the location and
\* url of the request; serverId is an id minted afresh, different from the
\* supplied one, when the supplied id has fewer than 8 characters, and the
\* supplied id otherwise; and no two records of the table were created from
\* the same supplied id.
C32_StoredUnderReturnedId ==
  [][last'.op = "register-store" =>
       LET s == last'.serverId
           req == last'.req
       IN  /\ MapHas(servers', s)
           /\ MapGet(servers', s).location = req.location
           /\ MapGet(servers', s).url = req.url
           /\ IF Len(req.id.text) < 8
              THEN s # req.id /\ ~MapHas(servers, s)
              ELSE s = req.id
           /\ \A j, k \in 1..Len(servers') :
                SuppliedId(servers'[j].id) = SuppliedId(servers'[k].id) => j = k]_vars

\* No request, sweep, load or storage write of the Registry is in progress.
Quiescent ==
  sweeps = <<>> /\ pushes = <<>> /\ dbQueue = <<>> /\ ~loading.pending

\* C33: in every quiescent state of the Registry the ids of the rows of
\* servers.db are the ids of the Map, also after two sweeps have overlapped.
C33_DurableMatchesMemory == Quiescent => Ids(db) = Ids(servers)

\* C34: a registered relay stays in the table until a sweep evicts it.  An id
\* leaves the Map only in the step of a sweep whose probe of that id has
\* failed: not when the startup load calls back after a registration.
C34_RegisteredUntilEvicted ==
  [][\A id \in Ids(servers) \ Ids(servers') :
       last'.op = "probe" /\ ~last'.alive /\ last'.id = id]_vars

\* C35: pushes cannot leave the Router stale.  With a Router that accepts the
\* Registry's pushes (no token configured), when every push has been answered
\* and no handler, sweep or write is in progress, the Router's snapshot is the
\* Registry's current list.
C35_PushesLeaveRouterCurrent ==
  (Quiescent /\ registered > 0 /\ ~Truthy(expectedToken))
    => serverList = Projection(servers)

\* C36: the Relay's registration loop terminates.  With a Registry that
\* answers, a Relay that has reached the loop, restarted with its earlier id
\* or not, eventually gets status 200 and leaves it.
C36_RetryTerminates == [](relay.pc = "loop" => <>(relay.pc = "registered"))

\* C37: in every iteration of a forwarding loop the count n that Read has
\* returned satisfies 0 <= n <= 4096, so that buf[:n], which the loop hands
\* to Write, lies within the buffer.
C37_ReadWithinBuffer ==
  \A i \in 1..Len(conns) : \A d \in Directions :
    LET l == LoopOf(conns[i], d)
        n == l.hi - l.lo + 1
    IN  l.pc = "write" => (0 <= n /\ n <= BufLen)

\* C38: /health of the Relay answers 200 OK in every state of a running
\* Relay, whatever sessions exist and whatever their states, and serving it
\* changes no session and no connection.
C38_HealthConstant ==
  /\ [](~Crashed("relay") => ENABLED RelayHealth)
  /\ [][last'.op = "health" =>
          /\ last'.status = "200"
          /\ last'.body = "OK"
          /\ UNCHANGED <<conns, handles>>]_vars

\* C38, the case: /health is answered while a session is forwarding a message
\* it has read.
C38_Witness ==
  /\ last.op = "health"
  /\ \E i \in 1..Len(conns) :
       /\ conns[i].via = "relay"
       /\ conns[i].state = "TUNNELING"
       /\ \E d \in Directions : LoopOf(conns[i], d).pc = "write"
====
